---- MODULE Spec2Model ----
(***************************************************************************)
(* A model of the rexos package of roboticeyes/gococo:                     *)
(*   - the authenticated HTTP client (Client): the with-caller and         *)
(*     with-service-user verbs, the four request primitives get, post,     *)
(*     patch and delete with their retry loops, and the service token      *)
(*     refreshed in the background under Client.mutex;                     *)
(*   - the bearer token validator (ValidateToken, getKey).                 *)
(* The remote API, the identity provider and the inbound request are the   *)
(* environment: their answers and the request's content are drawn from     *)
(* small sets.                                                             *)
(***************************************************************************)
EXTENDS Integers, Sequences, FiniteSets, TLC

VARIABLES
    config,        \* Client.config: [NotApplyServiceUser]
    serviceToken,  \* Client.serviceToken: [AccessToken, TokenType, ExpiresIn]
    mutex,         \* Client.mutex: "free", or the task that holds it
    \* one task calling a verb of the Client
    pc,            \* its position: idle, lock, read, unlock, send, inflight, done, panic
    variant,       \* the exported method it called
    ctx,           \* the context.Context it passed
    authenticate,  \* the authenticate argument (GET)
    token,         \* the local variable token
    trials,        \* the loop counter of get and delete
    sent,          \* number of httpClient.Do calls of this invocation
    waits,         \* number of time.Sleep(100ms) calls of this invocation
    answers,       \* what httpClient.Do returned, in order
    req,           \* the request as last sent
    outcome,       \* the returned (body, status, err)
    observed,      \* the service token as the task saw it under the lock
    \* the task running scheduleTokenRefreshHandler
    rpc,           \* its position
    phase,         \* "startup" (the for loop of line 121) or "cron"
    rbody,         \* the body read from the token endpoint
    pending,       \* the JSON members json.Unmarshal has not stored yet
    rerr,          \* the error json.Unmarshal has saved so far
    interval,      \* the interval given to cron.Every
    committed,     \* the service token as the last finished Unmarshal left it
    \* one run of ValidateToken
    vpc,           \* its position: idle, NoToken, HeaderExtracted, AlgRead,
                   \* SignatureVerified, and where it ends: Authorized, Rejected,
                   \* Returned (a plain return), Panicked
    vin,           \* its arguments: the request's authorization header, the value
                   \* injected under AuthorizationKey, signingKey, signingPublicKey,
                   \* compositeName
    jwt,           \* split[1], the token
    alg,           \* token.Header["alg"]
    claims,        \* the CustomClaims taken from the parsed token
    gin,           \* the gin.Context: [aborted, status, next, UserID]
    \* the last call of a link helper of the Service
    util,          \* [fn: the helper called, link: its argument, result: what came of it]
    \* one task calling an operation of the Service
    svc,           \* [op: the method called, args: its arguments, step: its position,
                   \*  calls: the calls of the Client it has made, in order, each with
                   \*  what came of it, result: the returned (body, *status.Status)]
    \* the Interceptor
    interceptor,   \* its fields: [accessToken, tokenType, mutex]
    loader,        \* the goroutine of watchSessionFile: [pc, file, session]
    loads,         \* the (token type, access token) of every session loadToken has
                   \* begun to store
    authorization  \* what the last AddToken set under "authorization" in its gin.Context

clientVars == <<config, serviceToken, mutex>>
callVars == <<pc, variant, ctx, authenticate, token, trials, sent, waits, answers,
              req, outcome, observed>>
refreshVars == <<rpc, phase, rbody, pending, rerr, interval, committed>>
validateVars == <<vpc, vin, jwt, alg, claims, gin>>
utilVars == <<util>>
serviceVars == <<svc>>
interceptorVars == <<interceptor, loader, loads, authorization>>
vars == <<clientVars, callVars, refreshVars, validateVars, utilVars, serviceVars,
          interceptorVars>>

\* ------------------------------------------------------------ constants

\* const MaxTrials
MaxTrials == 3

StatusForbidden == 403
StatusRequestTimeout == 408
StatusConflict == 409
StatusInternalServerError == 500

\* A nil []byte, a nil error, an absent header
Nil == "<nil>"
NilErr == [msg |-> Nil, n |-> 0]
Err(m) == [msg |-> m, n |-> 0]
ErrTrials(m, k) == [msg |-> m, n |-> k]

\* ------------------------------------------------------------ the environment

\* The statuses the remote API answers with
Statuses == {200, 201, 302, 404, 408, 409, 500}
\* What ioutil.ReadAll returns of a response body
Bodies == {"b1", "b2"}

\* What httpClient.Do returns: (nil, err), or a response; a response comes with an
\* error only when the redirect policy stopped (its body is closed then). body and
\* readErr are what ioutil.ReadAll(resp.Body) returns.
NoResponse == [err |-> TRUE, hasResp |-> FALSE, status |-> 0, body |-> "", readErr |-> FALSE]
RedirectStopped == [err |-> TRUE, hasResp |-> TRUE, status |-> 302, body |-> "", readErr |-> TRUE]
Responses == [err : {FALSE}, hasResp : {TRUE}, status : Statuses, body : Bodies,
              readErr : BOOLEAN]
Answers == {NoResponse, RedirectStopped} \cup Responses

\* The contexts a caller passes: without data (ctx.Value(ContextDataKey) == nil), or
\* with a ContextData holding the access token of the inbound request, as GetRexContext
\* makes them, with a deadline; elapsed: whether that deadline has passed
NoData == [hasData |-> FALSE, AccessToken |-> "", elapsed |-> FALSE]
Contexts == {NoData, [hasData |-> TRUE, AccessToken |-> "", elapsed |-> FALSE],
             [hasData |-> TRUE, AccessToken |-> "bearer usr", elapsed |-> FALSE]}

\* ------------------------------------------------------------ the verbs

\* The exported methods: the primitive each ends in, whose token it uses, the
\* addXForwardedHeader argument it passes, and when it calls GetXForwarded(ctx):
\* before it reads the token, after it, or never.
Variants ==
    { [name |-> "GetWithServiceUser", verb |-> "GET", service |-> TRUE, xf |-> TRUE, xfAt |-> "before"],
      [name |-> "Get", verb |-> "GET", service |-> FALSE, xf |-> TRUE, xfAt |-> "after"],
      [name |-> "GetWithServiceUserNoXF", verb |-> "GET", service |-> TRUE, xf |-> FALSE, xfAt |-> "after"],
      [name |-> "GetWithServiceUserNoXFNoContext", verb |-> "GET", service |-> TRUE, xf |-> FALSE, xfAt |-> "never"],
      [name |-> "GetNoXF", verb |-> "GET", service |-> FALSE, xf |-> FALSE, xfAt |-> "after"],
      [name |-> "PostWithServiceUser", verb |-> "POST", service |-> TRUE, xf |-> FALSE, xfAt |-> "after"],
      [name |-> "Post", verb |-> "POST", service |-> FALSE, xf |-> FALSE, xfAt |-> "after"],
      [name |-> "PostWithXF", verb |-> "POST", service |-> FALSE, xf |-> TRUE, xfAt |-> "after"],
      [name |-> "PostWithServiceUserWithXF", verb |-> "POST", service |-> TRUE, xf |-> TRUE, xfAt |-> "after"],
      [name |-> "PatchWithServiceUser", verb |-> "PATCH", service |-> TRUE, xf |-> FALSE, xfAt |-> "after"],
      [name |-> "Patch", verb |-> "PATCH", service |-> FALSE, xf |-> FALSE, xfAt |-> "after"],
      [name |-> "PatchWithServiceUserWithXF", verb |-> "PATCH", service |-> TRUE, xf |-> TRUE, xfAt |-> "after"],
      [name |-> "PatchWithXF", verb |-> "PATCH", service |-> FALSE, xf |-> TRUE, xfAt |-> "after"],
      [name |-> "PatchWithServiceUserNoContext", verb |-> "PATCH", service |-> TRUE, xf |-> FALSE, xfAt |-> "never"],
      [name |-> "DeleteWithServiceUser", verb |-> "DELETE", service |-> TRUE, xf |-> FALSE, xfAt |-> "never"],
      [name |-> "Delete", verb |-> "DELETE", service |-> FALSE, xf |-> FALSE, xfAt |-> "never"] }

NoVariant == [name |-> "", verb |-> "", service |-> FALSE, xf |-> FALSE, xfAt |-> "never"]
NoRequest == [method |-> "", Authorization |-> Nil, forwarded |-> FALSE]
NoOutcome == [body |-> Nil, status |-> 0, err |-> NilErr]

\* The zero value of JwtToken
ZeroToken == [AccessToken |-> "", TokenType |-> "", ExpiresIn |-> 0]

\* ------------------------------------------------------------ the primitives

Is2xx(status) == status >= 200 /\ status < 300

\* What one pass of a primitive does with the answer a of httpClient.Do, the loop
\* counter being t: [next: "retry" | "return" | "panic", out: the returned values].
\* slept: whether the pass called time.Sleep(100ms).
Return(body, status, err) ==
    [next |-> "return", slept |-> FALSE, out |-> [body |-> body, status |-> status, err |-> err]]
\* the pass after which the loop condition trials < MaxTrials fails
TimedOut(body, err) ==
    [next |-> "return", slept |-> TRUE,
     out |-> [body |-> body, status |-> StatusRequestTimeout, err |-> err]]
Retry == [next |-> "retry", slept |-> TRUE, out |-> NoOutcome]
\* a nil pointer dereference
Panic == [next |-> "panic", slept |-> FALSE, out |-> NoOutcome]

ReadErr(a) == IF a.readErr THEN Err("read body") ELSE NilErr

\* get with the loop bound off by one (trials <= MaxTrials)
get_OneMoreTrial(a, t) ==
    IF ~a.hasResp THEN Panic
    ELSE IF a.err THEN Return(Nil, a.status, Err("transport"))
    ELSE IF a.status = StatusRequestTimeout THEN
        IF t + 1 < MaxTrials + 1 THEN Retry
        ELSE TimedOut(Nil, ErrTrials("Internal GET request failed after trials", t + 2))
    ELSE IF ~Is2xx(a.status) THEN
        Return(a.body, a.status, ErrTrials("Internal GET request failed after trials", t + 1))
    ELSE Return(a.body, a.status, ReadErr(a))

\* Client.get, one pass of its loop and, after the last pass, the return below it
get(a, t) ==
    IF ~a.hasResp THEN Panic                       \* resp.Header of a nil resp
    ELSE IF a.err THEN Return(Nil, a.status, Err("transport"))
    ELSE IF a.status = StatusRequestTimeout THEN
        IF t + 1 < MaxTrials THEN Retry
        ELSE TimedOut(Nil, ErrTrials("Internal GET request failed after trials", t + 2))
    ELSE IF ~Is2xx(a.status) THEN
        Return(a.body, a.status, ErrTrials("Internal GET request failed after trials", t + 1))
    ELSE Return(a.body, a.status, ReadErr(a))

\* post retrying a 408 the way get does
post_Retrying(a, t) ==
    IF a.err THEN Return("", StatusInternalServerError, NilErr)
    ELSE IF a.status = StatusConflict THEN Return(a.body, a.status, NilErr)
    ELSE IF a.status = StatusRequestTimeout THEN
        IF t + 1 < MaxTrials THEN Retry
        ELSE TimedOut("", Err("Internal POST request timed out"))
    ELSE IF ~Is2xx(a.status) THEN Return(a.body, a.status, Err("Internal POST request failed"))
    ELSE Return(a.body, a.status, ReadErr(a))

\* post without the branch for http.StatusConflict
post_ConflictFails(a, t) ==
    IF a.err THEN Return("", StatusInternalServerError, NilErr)
    ELSE IF a.status = StatusRequestTimeout THEN
        Return("", StatusRequestTimeout, Err("Internal POST request timed out"))
    ELSE IF ~Is2xx(a.status) THEN Return(a.body, a.status, Err("Internal POST request failed"))
    ELSE Return(a.body, a.status, ReadErr(a))

\* Client.post
post(a, t) ==
    IF a.err THEN Return("", StatusInternalServerError, NilErr)
    ELSE IF a.status = StatusConflict THEN Return(a.body, a.status, NilErr)
    ELSE IF a.status = StatusRequestTimeout THEN
        Return("", StatusRequestTimeout, Err("Internal POST request timed out"))
    ELSE IF ~Is2xx(a.status) THEN Return(a.body, a.status, Err("Internal POST request failed"))
    ELSE Return(a.body, a.status, ReadErr(a))

\* Client.patch
patch(a, t) ==
    IF ~a.hasResp THEN Panic                       \* resp.Body of a nil resp
    ELSE IF a.status = StatusRequestTimeout THEN
        Return("", StatusRequestTimeout, Err("Internal PATCH request timed out"))
    ELSE IF ~Is2xx(a.status) THEN Return(a.body, a.status, Err("Internal PATCH request failed"))
    ELSE Return(a.body, a.status, ReadErr(a))

\* delete retrying every answer outside 2xx
delete_RetryAll(a, t) ==
    IF ~a.hasResp THEN Panic
    ELSE IF ~Is2xx(a.status) THEN
        IF t + 1 < MaxTrials THEN Retry
        ELSE TimedOut("", ErrTrials("Internal DELETE request failed after trials", t + 2))
    ELSE Return("", a.status, ReadErr(a))

\* Client.delete, one pass of its loop and, after the last pass, the return below it
delete(a, t) ==
    IF ~a.hasResp THEN Panic                       \* resp.Body of a nil resp
    ELSE IF a.status = StatusRequestTimeout THEN
        IF t + 1 < MaxTrials THEN Retry
        ELSE TimedOut("", ErrTrials("Internal DELETE request failed after trials", t + 2))
    ELSE IF ~Is2xx(a.status) THEN
        Return(a.body, a.status, ErrTrials("Internal DELETE request failed after trials", t + 1))
    ELSE Return("", a.status, ReadErr(a))

Primitive(verb, a, t) ==
    CASE verb = "GET" -> get(a, t)
      [] verb = "POST" -> post(a, t)
      [] verb = "PATCH" -> patch(a, t)
      [] verb = "DELETE" -> delete(a, t)

\* The request a primitive builds: the Authorization header (GET adds it only when
\* authenticate is set) and whether the X-Forwarded-Host/Port/Proto/Prefix headers
\* are added.
BuildRequest(v, tok, auth) ==
    [method |-> v.verb,
     Authorization |-> IF v.verb = "GET" /\ ~auth THEN Nil ELSE tok,
     forwarded |-> v.xf]

\* ------------------------------------------------------------ a task calling a verb

Forbidden(msg) == [body |-> Nil, status |-> StatusForbidden, err |-> Err(msg)]

\* the with-service-user verbs without the test of NotApplyServiceUser
Enter_NoGuard(V, C) ==
    /\ pc = "idle"
    /\ \E v \in V, c \in C, auth \in BOOLEAN :
        /\ variant' = v
        /\ ctx' = c
        /\ authenticate' = auth
        /\ IF v.service
           THEN IF v.xfAt = "before" /\ ~c.hasData
                THEN pc' = "done" /\ outcome' = Forbidden("Cannot get host")
                ELSE pc' = "lock" /\ outcome' = outcome
           ELSE IF ~c.hasData
                THEN pc' = "done" /\ outcome' = Forbidden("Missing token in context")
                ELSE pc' = "send" /\ outcome' = outcome
        /\ token' = IF ~v.service /\ c.hasData THEN c.AccessToken ELSE token
    /\ UNCHANGED <<trials, sent, waits, answers, req, observed>>
    /\ UNCHANGED <<clientVars, refreshVars, validateVars, utilVars,
                   serviceVars, interceptorVars>>

\* The exported method up to its first use of the mutex or of the primitive
Enter(V, C) ==
    /\ pc = "idle"
    /\ \E v \in V, c \in C, auth \in BOOLEAN :
        /\ variant' = v
        /\ ctx' = c
        /\ authenticate' = auth
        /\ IF v.service
           THEN IF config.NotApplyServiceUser
                THEN pc' = "done" /\ outcome' = Forbidden("No service user initialized")
                ELSE IF v.xfAt = "before" /\ ~c.hasData
                THEN pc' = "done" /\ outcome' = Forbidden("Cannot get host")
                ELSE pc' = "lock" /\ outcome' = outcome
           \* GetAccessTokenFromContext, then GetXForwarded, which fail together
           ELSE IF ~c.hasData
                THEN pc' = "done" /\ outcome' = Forbidden("Missing token in context")
                ELSE pc' = "send" /\ outcome' = outcome
        /\ token' = IF ~v.service /\ c.hasData THEN c.AccessToken ELSE token
    /\ UNCHANGED <<trials, sent, waits, answers, req, observed>>
    /\ UNCHANGED <<clientVars, refreshVars, validateVars, utilVars,
                   serviceVars, interceptorVars>>

\* the token read without waiting for the mutex
MutexLock_NoWait ==
    /\ pc = "lock"
    /\ mutex' = mutex
    /\ pc' = "read"
    /\ UNCHANGED <<config, serviceToken, refreshVars, validateVars, utilVars,
                   serviceVars, interceptorVars>>
    /\ UNCHANGED <<variant, ctx, authenticate, token, trials, sent, waits, answers, req,
                   outcome, observed>>

\* c.mutex.Lock()
MutexLock ==
    /\ pc = "lock"
    /\ mutex = "free"
    /\ mutex' = "call"
    /\ pc' = "read"
    /\ UNCHANGED <<config, serviceToken, refreshVars, validateVars, utilVars,
                   serviceVars, interceptorVars>>
    /\ UNCHANGED <<variant, ctx, authenticate, token, trials, sent, waits, answers, req,
                   outcome, observed>>

\* token := "Bearer " + c.serviceToken.AccessToken
ReadServiceToken ==
    /\ pc = "read"
    /\ token' = "Bearer " \o serviceToken.AccessToken
    /\ observed' = serviceToken
    /\ pc' = "unlock"
    /\ UNCHANGED <<clientVars, refreshVars, validateVars, utilVars,
                   serviceVars, interceptorVars>>
    /\ UNCHANGED <<variant, ctx, authenticate, trials, sent, waits, answers, req, outcome>>

\* the mutex kept while the primitive runs (a deferred Unlock)
MutexUnlock_Late ==
    /\ pc = "unlock"
    /\ mutex' = mutex
    /\ IF variant.xfAt = "after" /\ ~ctx.hasData
       THEN pc' = "done" /\ outcome' = Forbidden("Cannot get host")
       ELSE pc' = "send" /\ outcome' = outcome
    /\ UNCHANGED <<config, serviceToken, refreshVars, validateVars, utilVars,
                   serviceVars, interceptorVars>>
    /\ UNCHANGED <<variant, ctx, authenticate, token, trials, sent, waits, answers, req,
                   observed>>

\* c.mutex.Unlock(), and the GetXForwarded that follows it in most methods
MutexUnlock ==
    /\ pc = "unlock"
    /\ mutex' = "free"
    /\ IF variant.xfAt = "after" /\ ~ctx.hasData
       THEN pc' = "done" /\ outcome' = Forbidden("Cannot get host")
       ELSE pc' = "send" /\ outcome' = outcome
    /\ UNCHANGED <<config, serviceToken, refreshVars, validateVars, utilVars,
                   serviceVars, interceptorVars>>
    /\ UNCHANGED <<variant, ctx, authenticate, token, trials, sent, waits, answers, req,
                   observed>>

\* c.httpClient.Do(req): the request leaves
Do ==
    /\ pc = "send"
    /\ sent' = sent + 1
    /\ req' = BuildRequest(variant, token, authenticate)
    /\ pc' = "inflight"
    /\ UNCHANGED <<clientVars, refreshVars, validateVars, utilVars,
                   serviceVars, interceptorVars>>
    /\ UNCHANGED <<variant, ctx, authenticate, token, trials, waits, answers, outcome,
                   observed>>

\* c.httpClient.Do(req) returns, and the primitive runs up to its next Do or its return
Receive(A) ==
    /\ pc = "inflight"
    /\ \E a \in A :
        LET r == Primitive(variant.verb, a, trials) IN
        /\ answers' = Append(answers, a)
        /\ waits' = IF r.slept THEN waits + 1 ELSE waits
        /\ trials' = IF r.slept THEN trials + 1 ELSE trials
        /\ outcome' = IF r.next = "return" THEN r.out ELSE outcome
        /\ pc' = CASE r.next = "retry" -> "send"
                   [] r.next = "return" -> "done"
                   [] r.next = "panic" -> "panic"
    /\ UNCHANGED <<clientVars, refreshVars, validateVars, utilVars,
                   serviceVars, interceptorVars>>
    /\ UNCHANGED <<variant, ctx, authenticate, token, sent, req, observed>>

\* The deadline of the context passes while the call is under way; nothing in the
\* Client reads ctx.Done() or ctx.Err(), and the requests are made by http.NewRequest
\* without the context
DeadlineElapses ==
    /\ pc \in {"lock", "read", "unlock", "send", "inflight"}
    /\ ctx.hasData /\ ~ctx.elapsed
    /\ ctx' = [ctx EXCEPT !.elapsed = TRUE]
    /\ UNCHANGED <<clientVars, refreshVars, validateVars, utilVars,
                   serviceVars, interceptorVars>>
    /\ UNCHANGED <<pc, variant, authenticate, token, trials, sent, waits, answers, req,
                   outcome, observed>>

\* The caller takes the returned values; the task may call the next verb
Finish ==
    /\ pc = "done"
    /\ pc' = "idle"
    /\ variant' = NoVariant
    /\ ctx' = NoData
    /\ authenticate' = FALSE
    /\ token' = ""
    /\ trials' = 0
    /\ sent' = 0
    /\ waits' = 0
    /\ answers' = <<>>
    /\ req' = NoRequest
    /\ outcome' = NoOutcome
    /\ observed' = ZeroToken
    /\ UNCHANGED <<clientVars, refreshVars, validateVars, utilVars,
                   serviceVars, interceptorVars>>

\* ------------------------------------------------------------ the refresh task

\* The bodies the token endpoint answers with, as json.Unmarshal sees them: whether
\* the text is valid JSON, and the members it has for the fields of JwtToken, in
\* order (typeOK: whether the member's value fits the field's Go type).
Member(name, value) == [name |-> name, value |-> value, typeOK |-> TRUE]
Mistyped(name) == [name |-> name, value |-> 0, typeOK |-> FALSE]
Json(members) == [syntaxOK |-> TRUE, members |-> members]
NotJson == [syntaxOK |-> FALSE, members |-> <<>>]

GrantLong == Json(<<Member("AccessToken", "t1"), Member("TokenType", "bearer"),
                    Member("ExpiresIn", 3600)>>)
GrantShort == Json(<<Member("AccessToken", "t2"), Member("TokenType", "bearer"),
                     Member("ExpiresIn", 40)>>)
\* {"error": "invalid_client"}: no member of JwtToken
ErrorDocument == Json(<<>>)
\* "expires_in" is not a number that fits uint64
GrantMistyped == Json(<<Member("AccessToken", "t3"), Mistyped("ExpiresIn")>>)

\* What c.httpClient.Do(req) and ioutil.ReadAll(resp.Body) return in refreshToken
TokenAnswer(err, readErr, status, body) ==
    [err |-> err, readErr |-> readErr, status |-> status, body |-> body]
TokenAnswers ==
    { TokenAnswer(TRUE, FALSE, 0, NotJson),
      TokenAnswer(FALSE, TRUE, 200, NotJson),
      TokenAnswer(FALSE, FALSE, 200, GrantLong),
      TokenAnswer(FALSE, FALSE, 200, GrantShort),
      TokenAnswer(FALSE, FALSE, 200, GrantMistyped),
      TokenAnswer(FALSE, FALSE, 401, ErrorDocument),
      TokenAnswer(FALSE, FALSE, 502, NotJson) }

\* the handler ending at the first failed refresh of the startup
AfterRefresh_GiveUp(ok) ==
    IF phase = "startup" THEN (IF ok THEN "r_sched" ELSE "r_off") ELSE "r_wait"

\* Where the task goes when refreshToken returns ok: in the loop of
\* scheduleTokenRefreshHandler a failure sleeps and a success leaves the loop; the
\* cron job ignores the result.
AfterRefresh(ok) ==
    IF phase = "startup" THEN (IF ok THEN "r_sched" ELSE "r_sleep") ELSE "r_wait"

\* refreshToken: c.httpClient.Do(req), the request leaves
RefreshDo ==
    /\ rpc = "r_call"
    /\ rpc' = "r_inflight"
    /\ UNCHANGED <<phase, rbody, pending, rerr, interval, committed>>
    /\ UNCHANGED <<clientVars, callVars, validateVars, utilVars,
                   serviceVars, interceptorVars>>

\* refreshToken: Do returns and the body is read
RefreshReceive(TA) ==
    /\ rpc = "r_inflight"
    /\ \E a \in TA :
        IF a.err \/ a.readErr
        THEN rpc' = AfterRefresh(FALSE) /\ rbody' = rbody
        ELSE rpc' = "r_lock" /\ rbody' = a.body
    /\ UNCHANGED <<phase, pending, rerr, interval, committed>>
    /\ UNCHANGED <<clientVars, callVars, validateVars, utilVars,
                   serviceVars, interceptorVars>>

\* refreshToken: c.mutex.Lock(), and json.Unmarshal checks the syntax of the body
\* before it stores anything
RefreshLock ==
    /\ rpc = "r_lock"
    /\ mutex = "free"
    /\ mutex' = "refresh"
    /\ pending' = IF rbody.syntaxOK THEN rbody.members ELSE <<>>
    /\ rerr' = ~rbody.syntaxOK
    /\ rpc' = "r_unmarshal"
    /\ UNCHANGED <<config, serviceToken, phase, rbody, interval, committed>>
    /\ UNCHANGED <<callVars, validateVars, utilVars,
                   serviceVars, interceptorVars>>

\* json.Unmarshal(body, &c.serviceToken) stores the next member into its field; a
\* member of the wrong type is skipped, the error is kept and decoding goes on
UnmarshalMember ==
    /\ rpc = "r_unmarshal"
    /\ pending # <<>>
    /\ LET m == Head(pending) IN
        /\ serviceToken' = IF m.typeOK THEN [serviceToken EXCEPT ![m.name] = m.value]
                           ELSE serviceToken
        /\ rerr' = (rerr \/ ~m.typeOK)
    /\ pending' = Tail(pending)
    /\ UNCHANGED <<config, mutex, rpc, phase, rbody, interval, committed>>
    /\ UNCHANGED <<callVars, validateVars, utilVars,
                   serviceVars, interceptorVars>>

\* refreshToken returns err == nil, and the deferred c.mutex.Unlock() runs
RefreshUnlock ==
    /\ rpc = "r_unmarshal"
    /\ pending = <<>>
    /\ mutex' = "free"
    /\ committed' = serviceToken
    /\ rpc' = AfterRefresh(~rerr)
    /\ UNCHANGED <<config, serviceToken, phase, rbody, pending, rerr, interval>>
    /\ UNCHANGED <<callVars, validateVars, utilVars,
                   serviceVars, interceptorVars>>

\* scheduleTokenRefreshHandler: time.Sleep(30 * time.Second), then the next try
RetrySleep ==
    /\ rpc = "r_sleep"
    /\ rpc' = "r_call"
    /\ UNCHANGED <<phase, rbody, pending, rerr, interval, committed>>
    /\ UNCHANGED <<clientVars, callVars, validateVars, utilVars,
                   serviceVars, interceptorVars>>

\* the interval without the margin of 30 seconds
Interval_NoMargin(expiresIn) == expiresIn

\* The interval scheduleTokenRefreshHandler computes from ExpiresIn
Interval(expiresIn) ==
    IF expiresIn > 30 /\ expiresIn - 30 > 60 THEN expiresIn - 30 ELSE 30

\* scheduleTokenRefreshHandler: the interval is computed and the cron job started
Schedule ==
    /\ rpc = "r_sched"
    /\ interval' = Interval(serviceToken.ExpiresIn)
    /\ phase' = "cron"
    /\ rpc' = "r_wait"
    /\ UNCHANGED <<rbody, pending, rerr, committed>>
    /\ UNCHANGED <<clientVars, callVars, validateVars, utilVars,
                   serviceVars, interceptorVars>>

\* The cron job fires: c.refreshToken is called
CronTick ==
    /\ rpc = "r_wait"
    /\ rpc' = "r_call"
    /\ UNCHANGED <<phase, rbody, pending, rerr, interval, committed>>
    /\ UNCHANGED <<clientVars, callVars, validateVars, utilVars,
                   serviceVars, interceptorVars>>

\* The lifetimes of the tokens the endpoint grants: every one up to MaxBrief, which
\* lies past the margin of 30 seconds, and some on both sides of the later thresholds
MaxBrief == 31
Lifetimes == (0..MaxBrief) \cup {40, 60, 61, 90, 91, 3600}
Grant(expiresIn) == Json(<<Member("AccessToken", "t4"), Member("TokenType", "bearer"),
                           Member("ExpiresIn", expiresIn)>>)
ManyTokenAnswers ==
    TokenAnswers \cup { TokenAnswer(FALSE, FALSE, 200, Grant(e)) : e \in Lifetimes }

\* ------------------------------------------------------------ the older refresh task

\* JwtToken.ExpiresIn and interval are uint64; the width is scaled down to WordBits so
\* that the values fit the model checker's integers
WordBits == 16
Modulus == 2 ^ WordBits
\* a - b for unsigned operands below Modulus
Sub(a, b) == (a - b + Modulus) % Modulus

\* The interval the older scheduleTokenRefreshHandler computes: the subtraction is
\* unsigned and unguarded, the default is 600
LegacyInterval(expiresIn) ==
    IF Sub(expiresIn, 30) > 60 THEN Sub(expiresIn, 30) ELSE 600

\* The older refreshToken returns nothing: scheduleTokenRefreshHandler calls it once
\* and goes on whatever came of it
LegacyAfterRefresh == IF phase = "startup" THEN "r_sched" ELSE "r_wait"

\* refreshToken (older): Do returns and the body is read
LegacyRefreshReceive(TA) ==
    /\ rpc = "r_inflight"
    /\ \E a \in TA :
        IF a.err \/ a.readErr
        THEN rpc' = LegacyAfterRefresh /\ rbody' = rbody
        ELSE rpc' = "r_lock" /\ rbody' = a.body
    /\ UNCHANGED <<phase, pending, rerr, interval, committed>>
    /\ UNCHANGED <<clientVars, callVars, validateVars, utilVars,
                   serviceVars, interceptorVars>>

\* refreshToken (older) returns, and the deferred c.mutex.Unlock() runs
LegacyRefreshUnlock ==
    /\ rpc = "r_unmarshal"
    /\ pending = <<>>
    /\ mutex' = "free"
    /\ committed' = serviceToken
    /\ rpc' = LegacyAfterRefresh
    /\ UNCHANGED <<config, serviceToken, phase, rbody, pending, rerr, interval>>
    /\ UNCHANGED <<callVars, validateVars, utilVars,
                   serviceVars, interceptorVars>>

\* scheduleTokenRefreshHandler (older): the interval is computed and the cron job started
LegacySchedule ==
    /\ rpc = "r_sched"
    /\ interval' = LegacyInterval(serviceToken.ExpiresIn)
    /\ phase' = "cron"
    /\ rpc' = "r_wait"
    /\ UNCHANGED <<rbody, pending, rerr, committed>>
    /\ UNCHANGED <<clientVars, callVars, validateVars, utilVars,
                   serviceVars, interceptorVars>>

\* ------------------------------------------------------------ the token validator

\* Longest list of license items in a token, longest compositeName
MaxItems == 2
MaxNames == 2

SeqsUpTo(S, n) == UNION {[1..k -> S] : k \in 0..n}

ItemKeys == {"proj-x", "proj-y"}

\* The first segment of a token: how jwt.DecodeSegment and json.Unmarshal into
\* token.Header fare on it ("ok"; "badBase64"; "badJson": not a JSON object; "null":
\* the JSON null, which leaves the map nil), and its "alg" member.
HeaderSegment(decodes, algType, name) == [decodes |-> decodes, algType |-> algType, alg |-> name]
\* The second segment: whether it decodes into CustomClaims, and what it holds
ClaimsSegment(decodes, userID, items, expired) ==
    [decodes |-> decodes, UserID |-> userID, LicenseItems |-> items, expired |-> expired]
\* The third segment: the algorithm and the key the signature was made with
Signed(a, key) == [alg |-> a, key |-> key]
\* A token: the number of segments strings.Split(token, ".") gives, and the first three
Token(n, header, cl, sig) == [nparts |-> n, header |-> header, claims |-> cl, sig |-> sig]

\* "XX" is an algorithm jwt-go has no signing method for
Algs == {"HS256", "RS256", "HS384", "none", "XX"}
\* The signing methods jwt-go registers, among Algs
RegisteredMethods == {"HS256", "RS256", "HS384", "none"}
Signatures == {Signed("HS256", "s3cret"), Signed("HS256", ""), Signed("HS384", "s3cret"),
               Signed("RS256", "k1"), Signed("RS256", "k2"), Signed("none", "")}

NoClaims == ClaimsSegment(FALSE, "", <<>>, FALSE)
SomeClaims == ClaimsSegment(TRUE, "u1", <<"proj-x">>, FALSE)
NoToken == Token(0, HeaderSegment("badJson", "absent", ""), NoClaims, Signed("", ""))

WellFormedTokens ==
    { Token(3, HeaderSegment("ok", "string", a), ClaimsSegment(TRUE, "u1", items, expired), sig) :
        a \in Algs, items \in SeqsUpTo(ItemKeys, MaxItems), expired \in BOOLEAN,
        sig \in Signatures }
MalformedTokens ==
    { Token(3, HeaderSegment(d, "absent", ""), SomeClaims, Signed("HS256", "s3cret")) :
        d \in {"badBase64", "badJson", "null"} }
    \cup { Token(3, HeaderSegment("ok", t, ""), SomeClaims, Signed("HS256", "s3cret")) :
        t \in {"number", "absent"} }
    \cup { Token(n, HeaderSegment("ok", "string", a), SomeClaims, Signed(a, k)) :
        n \in {1, 2, 4}, a \in {"HS256"}, k \in {"s3cret"} }
    \cup { Token(3, HeaderSegment("ok", "string", "RS256"),
                 ClaimsSegment(FALSE, "", <<>>, FALSE), Signed("RS256", "k1")) }
Tokens == WellFormedTokens \cup MalformedTokens

\* An authorization value: strings.Split(value, " ") gives the word scheme and then
\* the words rest; the empty string is the word "" alone.
Value(scheme, rest) == [scheme |-> scheme, rest |-> rest]
Empty == Value("", <<>>)
GoodToken == Token(3, HeaderSegment("ok", "string", "HS256"), SomeClaims, Signed("HS256", "s3cret"))
\* GoodToken after its expiry
StaleToken == Token(3, HeaderSegment("ok", "string", "HS256"),
                    ClaimsSegment(TRUE, "u1", <<"proj-x">>, TRUE), Signed("HS256", "s3cret"))
Schemes == {"Bearer", "bearer", "BEARER", "Basic", ""}
FewValues ==
    { Value(sch, <<GoodToken>>) : sch \in Schemes }
    \cup { Value(sch, <<>>) : sch \in Schemes }
    \cup { Value("Bearer", <<GoodToken, GoodToken>>) }
AuthValues == { Value("Bearer", <<t>>) : t \in Tokens } \cup FewValues

\* The inbound requests: the authorization header and the value the Interceptor set
Request(header, injected) == [header |-> header, injected |-> injected]
Requests ==
    { Request(v, Empty) : v \in AuthValues }
    \cup { Request(Empty, v) : v \in FewValues }
    \cup { Request(v, w) : v \in {Value("Basic", <<GoodToken>>)}, w \in {Value("Bearer", <<GoodToken>>)} }
    \cup { Request(Value("Bearer", <<GoodToken>>), Value("Bearer", <<StaleToken>>)) }

\* signingPublicKey: whether pem.Decode finds a block, whether
\* x509.ParsePKIXPublicKey parses it, and the key it holds
PublicKey(pem, spki, type, id) == [pem |-> pem, spki |-> spki, type |-> type, id |-> id]
PublicKeys == {PublicKey(TRUE, TRUE, "rsa", "k1"), PublicKey(TRUE, TRUE, "ecdsa", "e1"),
               PublicKey(TRUE, FALSE, "", ""), PublicKey(FALSE, FALSE, "", "")}
SigningKeys == {"s3cret", ""}

\* strings.ToLower, on the scheme words
ToLower(w) ==
    CASE w \in {"Bearer", "BEARER"} -> "bearer"
      [] w = "Basic" -> "basic"
      [] OTHER -> w

\* getKey handing the shared secret to every HMAC algorithm
getKey_AnyHmac(a, signingKey, signingPublicKey) ==
    IF a \in {"HS256", "HS384"} THEN [kind |-> "bytes", id |-> signingKey]
    ELSE IF a = "RS256" /\ signingPublicKey.pem /\ signingPublicKey.spki
    THEN [kind |-> IF signingPublicKey.type = "rsa" THEN "rsa" ELSE "panic",
          id |-> signingPublicKey.id]
    ELSE [kind |-> "nil", id |-> ""]

\* What getKey returns: a []byte, a *rsa.PublicKey, nil, or it panics in the type
\* assertion pub.(*rsa.PublicKey)
Key(kind, id) == [kind |-> kind, id |-> id]
getKey(a, signingKey, signingPublicKey) ==
    IF a = "HS256" THEN Key("bytes", signingKey)
    ELSE IF a = "RS256" THEN
        IF ~signingPublicKey.pem THEN Key("nil", "")
        ELSE IF ~signingPublicKey.spki THEN Key("nil", "")
        ELSE IF signingPublicKey.type # "rsa" THEN Key("panic", "")
        ELSE Key("rsa", signingPublicKey.id)
    ELSE Key("nil", "")

\* token.Method.Verify of jwt-go: the HMAC methods take a []byte key, the RSA method a
\* *rsa.PublicKey, and "none" only the constant UnsafeAllowNoneSignatureType; the
\* signature verifies when it was made with that algorithm and that key.
MethodVerify(a, key, sig) ==
    CASE a \in {"HS256", "HS384"} -> key.kind = "bytes" /\ sig = Signed(a, key.id)
      [] a = "RS256" -> key.kind = "rsa" /\ sig = Signed(a, key.id)
      [] OTHER -> FALSE

\* the parse without the verification of the signature
ParseWithClaims_Unverified(tok, a, signingKey, signingPublicKey) ==
    IF tok.nparts # 3 THEN "err"
    ELSE IF tok.header.decodes # "ok" THEN "err"
    ELSE IF ~tok.claims.decodes THEN "err"
    ELSE IF tok.header.algType # "string" \/ tok.header.alg \notin RegisteredMethods THEN "err"
    ELSE IF tok.claims.expired THEN "err"
    ELSE "ok"

\* jwt.ParseWithClaims(split[1], &CustomClaims{}, keyfunc) with the keyfunc of
\* ValidateToken: "ok" (err == nil), "err", or "panic" (the keyfunc panicked)
ParseWithClaims(tok, a, signingKey, signingPublicKey) ==
    IF tok.nparts # 3 THEN "err"
    ELSE IF tok.header.decodes # "ok" THEN "err"
    ELSE IF ~tok.claims.decodes THEN "err"
    ELSE IF tok.header.algType # "string" \/ tok.header.alg \notin RegisteredMethods THEN "err"
    ELSE LET key == getKey(a, signingKey, signingPublicKey) IN
         IF key.kind = "panic" THEN "panic"
         ELSE IF tok.claims.expired THEN "err"
         ELSE IF ~MethodVerify(tok.header.alg, key, tok.sig) THEN "err"
         ELSE "ok"

\* only the first license item looked at
HasLicenseItem_FirstOnly(cl, name) ==
    Len(cl.LicenseItems) >= 1 /\ cl.LicenseItems[1] = name

\* The loop over claims.ComplexAuthorities.LicenseItems
HasLicenseItem(cl, name) == \E i \in 1..Len(cl.LicenseItems) : cl.LicenseItems[i] = name

FreshContext == [aborted |-> FALSE, status |-> 0, next |-> FALSE, UserID |-> Nil]
\* c.AbortWithStatus(http.StatusForbidden)
AbortWithStatus(g, status) == [g EXCEPT !.aborted = TRUE, !.status = status]
\* c.Next()
CallNext(g) == [g EXCEPT !.next = TRUE]

\* gin calls the handler that wraps ValidateToken
HandleRequest ==
    /\ vpc = "idle"
    /\ \E r \in Requests, sk \in SigningKeys, pk \in PublicKeys,
          names \in SeqsUpTo(ItemKeys, MaxNames) :
        vin' = [header |-> r.header, injected |-> r.injected, signingKey |-> sk,
                signingPublicKey |-> pk, compositeName |-> names]
    /\ vpc' = "NoToken"
    /\ gin' = FreshContext
    /\ UNCHANGED <<jwt, alg, claims>>
    /\ UNCHANGED <<clientVars, callVars, refreshVars, utilVars,
                   serviceVars, interceptorVars>>

\* the injected value taken before the header
ExtractToken_InjectedFirst ==
    /\ vpc = "NoToken"
    /\ LET tokenString == IF vin.injected # Empty THEN vin.injected ELSE vin.header IN
       IF tokenString = Empty
       THEN vpc' = "Rejected" /\ gin' = AbortWithStatus(gin, StatusForbidden) /\ jwt' = jwt
       ELSE IF ToLower(tokenString.scheme) # "bearer"
       THEN vpc' = "Rejected" /\ gin' = AbortWithStatus(gin, StatusForbidden) /\ jwt' = jwt
       ELSE IF tokenString.rest = <<>>
       THEN vpc' = "Panicked" /\ gin' = gin /\ jwt' = jwt
       ELSE vpc' = "HeaderExtracted" /\ gin' = gin /\ jwt' = tokenString.rest[1]
    /\ UNCHANGED <<vin, alg, claims>>
    /\ UNCHANGED <<clientVars, callVars, refreshVars, utilVars,
                   serviceVars, interceptorVars>>

\* ValidateToken: the token string is taken from the header or from the injected
\* value, and split at the blanks
ExtractToken ==
    /\ vpc = "NoToken"
    /\ LET tokenString == IF vin.header # Empty THEN vin.header ELSE vin.injected IN
       IF tokenString = Empty
       THEN vpc' = "Rejected" /\ gin' = AbortWithStatus(gin, StatusForbidden) /\ jwt' = jwt
       ELSE IF ToLower(tokenString.scheme) # "bearer"
       THEN vpc' = "Rejected" /\ gin' = AbortWithStatus(gin, StatusForbidden) /\ jwt' = jwt
       \* split[1] of a one-word value: index out of range
       ELSE IF tokenString.rest = <<>>
       THEN vpc' = "Panicked" /\ gin' = gin /\ jwt' = jwt
       ELSE vpc' = "HeaderExtracted" /\ gin' = gin /\ jwt' = tokenString.rest[1]
    /\ UNCHANGED <<vin, alg, claims>>
    /\ UNCHANGED <<clientVars, callVars, refreshVars, utilVars,
                   serviceVars, interceptorVars>>

\* ValidateToken: the header segment is decoded and its "alg" read
DecodeHeader ==
    /\ vpc = "HeaderExtracted"
    /\ IF jwt.header.decodes \in {"badBase64", "badJson"}
       \* return, with neither c.AbortWithStatus nor c.Next
       THEN vpc' = "Returned" /\ alg' = alg
       \* token.Header["alg"].(string) of a missing or non-string member
       ELSE IF jwt.header.decodes = "null" \/ jwt.header.algType # "string"
       THEN vpc' = "Panicked" /\ alg' = alg
       ELSE vpc' = "AlgRead" /\ alg' = jwt.header.alg
    /\ UNCHANGED <<vin, jwt, claims, gin>>
    /\ UNCHANGED <<clientVars, callVars, refreshVars, utilVars,
                   serviceVars, interceptorVars>>

\* ValidateToken: jwt.ParseWithClaims with the key getKey selects
VerifySignature ==
    /\ vpc = "AlgRead"
    /\ LET r == ParseWithClaims(jwt, alg, vin.signingKey, vin.signingPublicKey) IN
       CASE r = "panic" -> vpc' = "Panicked" /\ gin' = gin /\ claims' = claims
         [] r = "err" -> /\ vpc' = "Rejected"
                         /\ gin' = AbortWithStatus(gin, StatusForbidden)
                         /\ claims' = claims
         [] r = "ok" -> vpc' = "SignatureVerified" /\ gin' = gin /\ claims' = jwt.claims
    /\ UNCHANGED <<vin, jwt, alg>>
    /\ UNCHANGED <<clientVars, callVars, refreshVars, utilVars,
                   serviceVars, interceptorVars>>

\* the license items looked through although no name was given
Authorize_NamesRequired ==
    /\ vpc = "SignatureVerified"
    /\ LET g == [gin EXCEPT !.UserID = claims.UserID] IN
       IF \E n \in 1..Len(vin.compositeName) : HasLicenseItem(claims, vin.compositeName[n])
       THEN vpc' = "Authorized" /\ gin' = CallNext(g)
       ELSE vpc' = "Rejected" /\ gin' = AbortWithStatus(g, StatusForbidden)
    /\ UNCHANGED <<vin, jwt, alg, claims>>
    /\ UNCHANGED <<clientVars, callVars, refreshVars, utilVars,
                   serviceVars, interceptorVars>>

\* ValidateToken: the user ID is set and the license items are checked
Authorize ==
    /\ vpc = "SignatureVerified"
    /\ LET g == [gin EXCEPT !.UserID = claims.UserID] IN
       IF Len(vin.compositeName) = 0
       THEN vpc' = "Authorized" /\ gin' = CallNext(g)
       ELSE IF HasLicenseItem(claims, vin.compositeName[1])
       THEN vpc' = "Authorized" /\ gin' = CallNext(g)
       ELSE vpc' = "Rejected" /\ gin' = AbortWithStatus(g, StatusForbidden)
    /\ UNCHANGED <<vin, jwt, alg, claims>>
    /\ UNCHANGED <<clientVars, callVars, refreshVars, utilVars,
                   serviceVars, interceptorVars>>

NoInput == [header |-> Empty, injected |-> Empty, signingKey |-> "",
            signingPublicKey |-> PublicKey(FALSE, FALSE, "", ""), compositeName |-> <<>>]

\* The request is over; the next one may come
RequestDone ==
    /\ vpc \in {"Authorized", "Rejected", "Returned", "Panicked"}
    /\ vpc' = "idle"
    /\ vin' = NoInput
    /\ jwt' = NoToken
    /\ alg' = ""
    /\ claims' = NoClaims
    /\ gin' = FreshContext
    /\ UNCHANGED <<clientVars, callVars, refreshVars, utilVars,
                   serviceVars, interceptorVars>>

\* ------------------------------------------------------------ the link helpers

\* A string is the sequence of its pieces: a piece is one of the marks, each a single
\* character, or a word, which holds none of them; the empty string is <<>>.
Marks == {":", "/", "?", "=", "&", "#"}
\* Longest link among those enumerated piece by piece
MaxLinkLen == 5
Pieces == {"http", "x", "contentHash", ":", "/", "?", "=", "&"}
\* The links of service_test.go and of the comment of GetHashFromDownloadLink
NamedLinks ==
    { <<"hugo">>,
      <<"http", ":", "/", "/", "hugo">>,
      <<"https", ":", "/", "/", "rex.codes", "/", "v1", "/", "xxx">>,
      <<"https", ":", "/", "/", "rex.codes", "/", "v1", "/", "xxx", "?", "type", "=", "stub">>,
      <<"https", ":", "/", "/", "rex.codes", "/", "v1", "/", "xxx", "#", "top">>,
      <<"https", ":", "/", "/", "host", "/", "projectFiles", "/", "1747", "/", "file", "?",
        "contentHash", "=", "2dd1aee5">>,
      <<"https", ":", "/", "/", "host", "/", "projectFiles", "/", "1747", "/", "file", "?",
        "contentHash", "=", "2dd1aee5", "&", "download", "=", "true">> }
Links == SeqsUpTo(Pieces, MaxLinkLen) \cup NamedLinks

\* The index of the first, and of the last, piece of s that is in T; 0 if there is none
First(s, T) ==
    IF \E i \in 1..Len(s) : s[i] \in T
    THEN CHOOSE i \in 1..Len(s) : s[i] \in T /\ \A j \in 1..(i - 1) : s[j] \notin T
    ELSE 0
LastOf(s, T) ==
    IF \E i \in 1..Len(s) : s[i] \in T
    THEN CHOOSE i \in 1..Len(s) : s[i] \in T /\ \A j \in (i + 1)..Len(s) : s[j] \notin T
    ELSE 0
Before(s, i) == SubSeq(s, 1, i - 1)
After(s, i) == SubSeq(s, i + 1, Len(s))

\* strings.Split(s, sep), sep being a mark
RECURSIVE Split(_, _)
Split(s, sep) ==
    LET i == First(s, {sep}) IN
    IF i = 0 THEN <<s>> ELSE <<Before(s, i)>> \o Split(After(s, i), sep)

\* What a helper does: it returns a string, or the process exits in log.Fatal
Ret(value) == [exit |-> FALSE, value |-> value]
Exit == [exit |-> TRUE, value |-> <<>>]

\* GetHashFromDownloadLink
GetHashFromDownloadLink(link) ==
    LET res == Split(link, "=") IN
    IF Len(res) < 2 THEN Ret(<<>>) ELSE Ret(res[2])

\* strings.HasPrefix(link, "http")
HasPrefixHttp(link) == link # <<>> /\ link[1] \in {"http", "https"}

\* GetGUIDFromRexTagURL, the older one: the link itself is split
LegacyGetGUIDFromRexTagURL(link) ==
    IF ~HasPrefixHttp(link) THEN Ret(<<>>)
    ELSE LET res == Split(link, "/") IN
         IF Len(res) < 2 THEN Ret(<<>>) ELSE Ret(res[Len(res)])

\* url.Parse, as far as Scheme and Path go
Url(scheme, path) == [err |-> FALSE, Scheme |-> scheme, Path |-> path]
ParseError == [err |-> TRUE, Scheme |-> <<>>, Path |-> <<>>]
\* getScheme of net/url: the words before the first mark, if that mark is a colon; a
\* colon at the very start is an error
getScheme(raw) ==
    LET j == First(raw, Marks) IN
    IF j = 0 THEN [err |-> FALSE, scheme |-> <<>>, rest |-> raw]
    ELSE IF raw[j] # ":" THEN [err |-> FALSE, scheme |-> <<>>, rest |-> raw]
    ELSE IF j = 1 THEN [err |-> TRUE, scheme |-> <<>>, rest |-> raw]
    ELSE [err |-> FALSE, scheme |-> Before(raw, j), rest |-> After(raw, j)]
\* The authority and the path of a rest that starts with "//"
AuthorityAndPath(rest) ==
    LET tail == SubSeq(rest, 3, Len(rest))
        k == First(tail, {"/"}) IN
    [authority |-> IF k = 0 THEN tail ELSE Before(tail, k),
     path |-> IF k = 0 THEN <<>> ELSE SubSeq(tail, k, Len(tail))]
\* parseHost: what follows the last colon of the host must be digits; no word here is
ValidHost(authority) == LastOf(authority, {":"}) \in {0, Len(authority)}
Parse(link) ==
    LET f == First(link, {"#"})
        s == getScheme(IF f = 0 THEN link ELSE Before(link, f)) IN
    IF s.err THEN ParseError
    ELSE LET q == First(s.rest, {"?"})
             rest == IF q = 0 THEN s.rest ELSE Before(s.rest, q) IN
         IF rest = <<>> \/ rest[1] # "/" THEN
             \* a rootless path is opaque under a scheme
             IF s.scheme # <<>> THEN Url(s.scheme, <<>>)
             ELSE LET colon == First(rest, {":"})
                      slash == First(rest, {"/"}) IN
                  IF colon > 0 /\ (slash = 0 \/ colon < slash) THEN ParseError
                  ELSE Url(<<>>, rest)
         ELSE IF /\ Len(rest) >= 2 /\ rest[2] = "/"
                 /\ (s.scheme # <<>> \/ ~(Len(rest) >= 3 /\ rest[3] = "/")) THEN
             LET ap == AuthorityAndPath(rest) IN
             IF ValidHost(ap.authority) THEN Url(s.scheme, ap.path) ELSE ParseError
         ELSE Url(s.scheme, rest)

\* GetGUIDFromRexTagURL
GetGUIDFromRexTagURL(link) ==
    LET u == Parse(link) IN
    IF u.err THEN Exit
    ELSE IF u.Scheme = <<>> THEN Ret(<<>>)
    ELSE LET res == Split(u.Path, "/") IN
         IF Len(res) < 2 THEN Ret(<<>>) ELSE Ret(res[Len(res)])

NoCall == [fn |-> "", link |-> <<>>, result |-> Ret(<<>>)]

\* A call of one of the helpers, on any link
CallGetHashFromDownloadLink ==
    /\ util = NoCall
    /\ \E l \in Links :
        util' = [fn |-> "GetHashFromDownloadLink", link |-> l,
                 result |-> GetHashFromDownloadLink(l)]
    /\ UNCHANGED <<clientVars, callVars, refreshVars, validateVars, serviceVars,
                   interceptorVars>>

CallGetGUIDFromRexTagURL ==
    /\ util = NoCall
    /\ \E l \in Links :
        util' = [fn |-> "GetGUIDFromRexTagURL", link |-> l,
                 result |-> GetGUIDFromRexTagURL(l)]
    /\ UNCHANGED <<clientVars, callVars, refreshVars, validateVars, serviceVars,
                   interceptorVars>>

CallLegacyGetGUIDFromRexTagURL ==
    /\ util = NoCall
    /\ \E l \in Links :
        util' = [fn |-> "LegacyGetGUIDFromRexTagURL", link |-> l,
                 result |-> LegacyGetGUIDFromRexTagURL(l)]
    /\ UNCHANGED <<clientVars, callVars, refreshVars, validateVars, serviceVars,
                   interceptorVars>>

\* The helper has returned and its caller goes on; after log.Fatal nothing goes on
HelperReturns ==
    /\ util # NoCall
    /\ ~util.result.exit
    /\ util' = NoCall
    /\ UNCHANGED <<clientVars, callVars, refreshVars, validateVars, serviceVars,
                   interceptorVars>>

\* ------------------------------------------------------------ the Service

StatusOK == 200
StatusBadRequest == 400
StatusNotFound == 404

\* A *status.Status: nil, or what status.NewStatus(body, code, message) makes
NoStatus == [nil |-> TRUE, Code |-> 0]
NewStatus(code) == [nil |-> FALSE, Code |-> code]
\* The values an operation returns: a body (Nil where it returns none) and a Status
Result(body, status) == [body |-> body, status |-> status]

\* createHalResource taking a 409 the executor reports without error for a success
createHalResource_ConflictCreated(o) ==
    IF o.err # NilErr THEN Result("", NewStatus(o.status))
    ELSE IF ~Is2xx(o.status) /\ o.status # StatusConflict THEN Result("", NewStatus(o.status))
    ELSE Result(o.body, NoStatus)

\* Service.getHalResource, .createHalResource, .patchHalResource on the values
\* o = (body, code, err) their getFunction, postFunction, patchFunction returned
getHalResource(o) ==
    IF o.err # NilErr THEN Result("", NewStatus(o.status))
    ELSE IF ~Is2xx(o.status) THEN Result("", NewStatus(o.status))
    ELSE Result(o.body, NoStatus)

createHalResource(o) ==
    IF o.err # NilErr THEN Result("", NewStatus(o.status))
    ELSE IF ~Is2xx(o.status) THEN Result("", NewStatus(o.status))
    ELSE Result(o.body, NoStatus)

patchHalResource(o) ==
    IF o.err # NilErr THEN Result("", NewStatus(o.status))
    ELSE IF ~Is2xx(o.status) THEN Result("", NewStatus(o.status))
    ELSE Result(o.body, NoStatus)

\* The exported methods that end in createHalResource, by the postFunction they pass
CreateOps ==
    { [op |-> "CreateHalResource", pf |-> "Post"],
      [op |-> "CreateHalResourceWithXF", pf |-> "PostWithXF"],
      [op |-> "CreateHalResourceWithServiceUser", pf |-> "PostWithServiceUser"],
      [op |-> "CreateHalResourceWithServiceUserWithXF", pf |-> "PostWithServiceUserWithXF"] }
CreateNames == {c.op : c \in CreateOps}
UploadNames == {"UploadFile", "UploadMultipartFile", "UploadFileContent"}

\* The arguments that decide the course of an operation: whether projectUrn has three
\* parts, whether userShare.User.Email and .UserName are set, whether newOwner is the
\* owner the project has already, and the authenticate argument
Args(urnOK, email, username, sameOwner, auth) ==
    [urnOK |-> urnOK, email |-> email, username |-> username, sameOwner |-> sameOwner,
     authenticate |-> auth]
NoArgs == Args(TRUE, FALSE, FALSE, FALSE, TRUE)

Invocations ==
    {[op |-> c.op, args |-> NoArgs] : c \in CreateOps}
    \cup {[op |-> "CreateOrUpdateUserShare", args |-> Args(u, e, n, FALSE, TRUE)] :
            u \in BOOLEAN, e \in BOOLEAN, n \in BOOLEAN}
    \cup {[op |-> "TransferProject", args |-> Args(TRUE, FALSE, FALSE, s, TRUE)] :
            s \in BOOLEAN}
    \cup {[op |-> "UploadFile", args |-> NoArgs],
          [op |-> "UploadMultipartFile", args |-> NoArgs]}
    \cup {[op |-> "UploadFileContent", args |-> Args(TRUE, FALSE, FALSE, FALSE, a)] :
            a \in BOOLEAN}

NoOp == [op |-> "", args |-> NoArgs, ctx |-> NoData, step |-> "idle", calls |-> <<>>,
         result |-> Result(Nil, NoStatus)]

Went(s, step) == [s EXCEPT !.step = step]
Returned(s, r) == [s EXCEPT !.step = "returned", !.result = r]
\* a nil pointer dereference in the operation itself
Crashed(s) == [s EXCEPT !.step = "panic"]

\* The steps at which an operation calls the Client, and the method it calls there
CallSteps == {"project", "email", "username", "lookup", "download", "post", "patch"}
Callee(s) ==
    CASE s.step \in {"project", "email", "username", "lookup", "download"} -> "Get"
      [] s.step = "patch" -> "Patch"
      [] s.step = "post" /\ s.op \in CreateNames ->
            (CHOOSE c \in CreateOps : c.op = s.op).pf
      [] OTHER -> "Post"
\* getHalResource passes authenticate = true; UploadFileContent passes its argument
AuthArg(s) == IF s.step = "download" THEN s.args.authenticate ELSE TRUE

\* An operation up to its first call of the Client
Begin(i, c) ==
    LET s == [NoOp EXCEPT !.op = i.op, !.args = i.args, !.ctx = c] IN
    CASE i.op \in CreateNames -> Went(s, "post")
      [] i.op = "CreateOrUpdateUserShare" ->
            \* GetNumberFromUrn
            IF ~i.args.urnOK
            THEN Returned(s, Result(Nil, NewStatus(StatusInternalServerError)))
            ELSE IF ~i.args.email /\ ~i.args.username
            THEN Returned(s, Result(Nil, NewStatus(StatusBadRequest)))
            ELSE Went(s, "lookup")
      [] i.op = "TransferProject" -> Went(s, "project")
      [] i.op \in {"UploadFile", "UploadMultipartFile"} -> Went(s, "post")
      [] i.op = "UploadFileContent" -> Went(s, "download")

\* CreateOrUpdateUserShare updating the share after every failure to create it
CreateOrUpdateUserShare_PatchOnAnyFailure(s, o) ==
    CASE s.step = "lookup" ->
            LET r == getHalResource(o) IN
            IF ~r.status.nil THEN Returned(s, Result(Nil, r.status)) ELSE Went(s, "post")
      [] s.step = "post" ->
            LET r == createHalResource(o) IN
            IF r.status.nil THEN Returned(s, Result(Nil, NoStatus)) ELSE Went(s, "patch")
      [] s.step = "patch" -> Returned(s, Result(Nil, patchHalResource(o).status))

\* CreateOrUpdateUserShare from the return of a call on
CreateOrUpdateUserShare(s, o) ==
    CASE s.step = "lookup" ->
            LET r == getHalResource(o) IN
            IF ~r.status.nil THEN Returned(s, Result(Nil, r.status)) ELSE Went(s, "post")
      [] s.step = "post" ->
            LET r == createHalResource(o) IN
            IF r.status.nil THEN Returned(s, Result(Nil, NoStatus))
            ELSE IF r.status.Code = StatusConflict THEN Went(s, "patch")
            ELSE Returned(s, Result(Nil, r.status))
      [] s.step = "patch" -> Returned(s, Result(Nil, patchHalResource(o).status))

\* TransferProject looking the owner up by username after every failure by e-mail
TransferProject_AlwaysFallsBack(s, o) ==
    CASE s.step = "project" ->
            LET r == getHalResource(o) IN
            IF ~r.status.nil THEN Returned(s, Result(Nil, r.status)) ELSE Went(s, "email")
      [] s.step = "email" ->
            LET r == getHalResource(o) IN
            IF ~r.status.nil THEN Went(s, "username")
            ELSE IF s.args.sameOwner THEN Returned(s, Result(Nil, NoStatus))
            ELSE Went(s, "patch")
      [] s.step = "username" ->
            LET r == getHalResource(o) IN
            IF ~r.status.nil THEN Returned(s, Result(Nil, r.status))
            ELSE IF s.args.sameOwner THEN Returned(s, Result(Nil, NoStatus))
            ELSE Went(s, "patch")
      [] s.step = "patch" -> Returned(s, Result(Nil, patchHalResource(o).status))

\* TransferProject from the return of a call on
TransferProject(s, o) ==
    CASE s.step = "project" ->
            LET r == getHalResource(o) IN
            IF ~r.status.nil THEN Returned(s, Result(Nil, r.status)) ELSE Went(s, "email")
      [] s.step = "email" ->
            LET r == getHalResource(o) IN
            IF ~r.status.nil
            THEN IF r.status.Code = StatusNotFound THEN Went(s, "username")
                 ELSE Returned(s, Result(Nil, r.status))
            ELSE IF s.args.sameOwner THEN Returned(s, Result(Nil, NoStatus))
            ELSE Went(s, "patch")
      [] s.step = "username" ->
            LET r == getHalResource(o) IN
            IF ~r.status.nil THEN Returned(s, Result(Nil, r.status))
            ELSE IF s.args.sameOwner THEN Returned(s, Result(Nil, NoStatus))
            ELSE Went(s, "patch")
      [] s.step = "patch" -> Returned(s, Result(Nil, patchHalResource(o).status))

\* UploadFile, UploadMultipartFile and the second half of UploadFileContent: the
\* branch of code != http.StatusOK calls err.Error() of the nil err
Upload(s, o) ==
    IF o.err # NilErr THEN Returned(s, Result(Nil, NewStatus(o.status)))
    ELSE IF o.status # StatusOK THEN Crashed(s)
    ELSE Returned(s, Result(Nil, NoStatus))

\* UploadFileContent from the return of a call on
UploadFileContent(s, o) ==
    CASE s.step = "download" ->
            IF o.err # NilErr THEN Returned(s, Result(Nil, NewStatus(o.status)))
            ELSE IF o.status # StatusOK THEN Returned(s, Result(Nil, NewStatus(o.status)))
            ELSE Went(s, "post")
      [] s.step = "post" -> Upload(s, o)

\* The answers of the remote API to the calls of an operation
ServiceAnswers == {NoResponse, RedirectStopped} \cup {a \in Responses : a.body = "b1"}

\* The record of a call: the step it was made at, how many requests it sent, the
\* status of the last response, 0 where none came, and the values it returned
Called(step, n, as, o) ==
    [step |-> step, sent |-> n,
     status |-> IF as # <<>> /\ as[Len(as)].hasResp /\ ~as[Len(as)].err
                THEN as[Len(as)].status ELSE 0,
     out |-> o]

\* A caller starts an operation of the Service
ServiceBegin(C) ==
    /\ svc = NoOp
    /\ pc = "idle"
    /\ \E i \in Invocations, c \in C : svc' = Begin(i, c)
    /\ UNCHANGED <<clientVars, callVars, refreshVars, validateVars, utilVars,
                   interceptorVars>>

\* The operation calls the method of the Client its step asks for
ServiceCall ==
    /\ svc.step \in CallSteps
    /\ Enter({v \in Variants : v.name = Callee(svc)}, {svc.ctx})
    /\ authenticate' = AuthArg(svc)

\* The method of the Client has returned, and the operation runs up to its next call
\* or to its return
ServiceResume ==
    /\ svc.step \in CallSteps
    /\ pc = "done"
    /\ LET s == [svc EXCEPT !.calls = Append(@, Called(svc.step, sent, answers, outcome))] IN
       svc' = CASE svc.op \in CreateNames -> Returned(s, createHalResource(outcome))
                [] svc.op = "CreateOrUpdateUserShare" -> CreateOrUpdateUserShare(s, outcome)
                [] svc.op = "TransferProject" -> TransferProject(s, outcome)
                [] svc.op \in {"UploadFile", "UploadMultipartFile"} -> Upload(s, outcome)
                [] svc.op = "UploadFileContent" -> UploadFileContent(s, outcome)
    /\ pc' = "idle"
    /\ variant' = NoVariant
    /\ ctx' = NoData
    /\ authenticate' = FALSE
    /\ token' = ""
    /\ trials' = 0
    /\ sent' = 0
    /\ waits' = 0
    /\ answers' = <<>>
    /\ req' = NoRequest
    /\ outcome' = NoOutcome
    /\ observed' = ZeroToken
    /\ UNCHANGED <<clientVars, refreshVars, validateVars, utilVars, interceptorVars>>

\* The caller takes what the operation returned
ServiceReturns ==
    /\ svc.step = "returned"
    /\ svc' = NoOp
    /\ UNCHANGED <<clientVars, callVars, refreshVars, validateVars, utilVars,
                   interceptorVars>>

\* ------------------------------------------------------------ the Interceptor

AccessTokens == {"a1", "a2"}
TokenTypes == {"bearer", "mac"}
\* A member of the session file that is missing, or is not a JSON string
Missing == "<missing>"
NotString == "<not a string>"

\* The session file as loadToken finds it: one os.Open fails on, one ioutil.ReadAll
\* fails on, one that is not JSON, or a JSON object with its two members
File(state, access, type) == [state |-> state, access_token |-> access, token_type |-> type]
SessionFiles ==
    {File(s, Missing, Missing) : s \in {"unopenable", "unreadable", "invalid"}}
    \cup {File("json", a, t) : a \in AccessTokens \cup {Missing, NotString},
                               t \in TokenTypes \cup {Missing, NotString}}

Session(access, type, err) == [AccessToken |-> access, TokenType |-> type, err |-> err]
\* json.Unmarshal(buf, &session) into the zero session: nothing is stored of a buffer
\* that is not JSON, and a member of the wrong type is skipped and reported
UnmarshalSession(f) ==
    IF f.state # "json" THEN Session("", "", TRUE)
    ELSE Session(IF f.access_token \in AccessTokens THEN f.access_token ELSE "",
                 IF f.token_type \in TokenTypes THEN f.token_type ELSE "",
                 f.access_token = NotString \/ f.token_type = NotString)

NoSession == Session("", "", FALSE)
\* The loader before NewInterceptor has called loadToken, and between two loads
Constructing == [pc |-> "new", started |-> FALSE, session |-> NoSession]
Watching == [pc |-> "watching", started |-> TRUE, session |-> NoSession]

\* loadToken up to i.mutex.Lock(): called by NewInterceptor, and then by the goroutine
\* of watchSessionFile on every write event
LoadToken(F) ==
    /\ loader.pc \in {"new", "watching"}
    /\ \E f \in F :
        IF f.state \in {"unopenable", "unreadable"}
        THEN loader' = Watching
        ELSE loader' = [loader EXCEPT !.pc = "lock", !.session = UnmarshalSession(f)]
    /\ UNCHANGED <<interceptor, loads, authorization>>
    /\ UNCHANGED <<clientVars, callVars, refreshVars, validateVars, utilVars, serviceVars>>

\* the two fields stored without the mutex
LoadLock_NoWait ==
    /\ loader.pc = "lock"
    /\ interceptor' = interceptor
    /\ loader' = [loader EXCEPT !.pc = "accessToken"]
    /\ loads' = loads \cup {<<loader.session.TokenType, loader.session.AccessToken>>}
    /\ UNCHANGED authorization
    /\ UNCHANGED <<clientVars, callVars, refreshVars, validateVars, utilVars, serviceVars>>

\* i.mutex.Lock()
LoadLock ==
    /\ loader.pc = "lock"
    /\ interceptor.mutex = "free"
    /\ interceptor' = [interceptor EXCEPT !.mutex = "loader"]
    /\ loader' = [loader EXCEPT !.pc = "accessToken"]
    /\ loads' = loads \cup {<<loader.session.TokenType, loader.session.AccessToken>>}
    /\ UNCHANGED authorization
    /\ UNCHANGED <<clientVars, callVars, refreshVars, validateVars, utilVars, serviceVars>>

\* i.accessToken = session.AccessToken
StoreAccessToken ==
    /\ loader.pc = "accessToken"
    /\ interceptor' = [interceptor EXCEPT !.accessToken = loader.session.AccessToken]
    /\ loader' = [loader EXCEPT !.pc = "tokenType"]
    /\ UNCHANGED <<loads, authorization>>
    /\ UNCHANGED <<clientVars, callVars, refreshVars, validateVars, utilVars, serviceVars>>

\* i.tokenType = session.TokenType, and the deferred i.mutex.Unlock()
StoreTokenType ==
    /\ loader.pc = "tokenType"
    /\ interceptor' = [interceptor EXCEPT !.tokenType = loader.session.TokenType,
                                          !.mutex = "free"]
    /\ loader' = Watching
    /\ UNCHANGED <<loads, authorization>>
    /\ UNCHANGED <<clientVars, callVars, refreshVars, validateVars, utilVars, serviceVars>>

\* AddToken, in the goroutine of a request, once NewInterceptor has returned: it holds
\* the mutex from its first line to its last
AddToken ==
    /\ loader.started
    /\ interceptor.mutex = "free"
    /\ authorization' = interceptor.tokenType \o " " \o interceptor.accessToken
    /\ UNCHANGED <<interceptor, loader, loads>>
    /\ UNCHANGED <<clientVars, callVars, refreshVars, validateVars, utilVars, serviceVars>>

\* ------------------------------------------------------------ specifications

\* NewClient: the refresh task is started unless NotApplyServiceUser is set
Init ==
    /\ config \in [NotApplyServiceUser : BOOLEAN]
    /\ serviceToken = ZeroToken
    /\ mutex = "free"
    /\ pc = "idle"
    /\ variant = NoVariant
    /\ ctx = NoData
    /\ authenticate = FALSE
    /\ token = ""
    /\ trials = 0
    /\ sent = 0
    /\ waits = 0
    /\ answers = <<>>
    /\ req = NoRequest
    /\ outcome = NoOutcome
    /\ observed = ZeroToken
    /\ rpc = IF config.NotApplyServiceUser THEN "r_off" ELSE "r_call"
    /\ phase = "startup"
    /\ rbody = NotJson
    /\ pending = <<>>
    /\ rerr = FALSE
    /\ interval = 0
    /\ committed = ZeroToken
    /\ vpc = "idle"
    /\ vin = NoInput
    /\ jwt = NoToken
    /\ alg = ""
    /\ claims = NoClaims
    /\ gin = FreshContext
    /\ util = NoCall
    /\ svc = NoOp
    /\ interceptor = [accessToken |-> "", tokenType |-> "", mutex |-> "free"]
    /\ loader = Constructing
    /\ loads = {}
    /\ authorization = Nil

\* The verbs of the Client, called one after the other, against every answer of the
\* remote API
NextExec ==
    \/ Enter(Variants, Contexts)
    \/ MutexLock
    \/ ReadServiceToken
    \/ MutexUnlock
    \/ Do
    \/ Receive(Answers)
    \/ Finish

SpecExec == Init /\ [][NextExec]_vars

\* The verbs called with contexts whose deadline may pass during the call
NextDeadline ==
    \/ Enter(Variants, Contexts)
    \/ MutexLock
    \/ ReadServiceToken
    \/ MutexUnlock
    \/ Do
    \/ Receive(Answers)
    \/ Finish
    \/ DeadlineElapses

SpecDeadline == Init /\ [][NextDeadline]_vars

\* The refresh task next to a task calling the with-service-user verbs
ServiceVariants == {v \in Variants : v.service}
FewAnswers == {a \in Responses : a.status \in {200, 408} /\ a.body = "b1" /\ ~a.readErr}

NextCred ==
    \/ Enter(ServiceVariants, Contexts)
    \/ MutexLock
    \/ ReadServiceToken
    \/ MutexUnlock
    \/ Do
    \/ Receive(FewAnswers)
    \/ Finish
    \/ RefreshDo
    \/ RefreshReceive(TokenAnswers)
    \/ RefreshLock
    \/ UnmarshalMember
    \/ RefreshUnlock
    \/ RetrySleep
    \/ Schedule
    \/ CronTick

SpecCred == Init /\ [][NextCred]_vars

\* The refresh task alone, against a token endpoint granting every lifetime
NextRefresh ==
    \/ RefreshDo
    \/ RefreshReceive(ManyTokenAnswers)
    \/ RefreshLock
    \/ UnmarshalMember
    \/ RefreshUnlock
    \/ RetrySleep
    \/ Schedule
    \/ CronTick

SpecRefresh == Init /\ [][NextRefresh]_vars

\* The answers that are a successful grant
GoodGrants == {a \in ManyTokenAnswers :
                 /\ ~a.err /\ ~a.readErr /\ a.status = 200 /\ a.body.syntaxOK
                 /\ \E i \in 1..Len(a.body.members) :
                        a.body.members[i].name = "AccessToken" /\ a.body.members[i].typeOK
                 /\ \A i \in 1..Len(a.body.members) : a.body.members[i].typeOK}

\* The refresh task fairly scheduled: the goroutine runs whenever it can, the cron job
\* fires again and again, and the identity provider answers every grant request, time
\* and again with a successful grant
FairRefresh ==
    /\ WF_vars(RefreshDo)
    /\ WF_vars(RefreshReceive(ManyTokenAnswers))
    /\ SF_vars(RefreshReceive(GoodGrants))
    /\ WF_vars(RefreshLock)
    /\ WF_vars(UnmarshalMember)
    /\ WF_vars(RefreshUnlock)
    /\ WF_vars(RetrySleep)
    /\ WF_vars(Schedule)
    /\ WF_vars(CronTick)

SpecRefreshFair == Init /\ [][NextRefresh]_vars /\ FairRefresh

\* The older refresh task alone, against the same endpoint
NextLegacy ==
    \/ RefreshDo
    \/ LegacyRefreshReceive(ManyTokenAnswers)
    \/ RefreshLock
    \/ UnmarshalMember
    \/ LegacyRefreshUnlock
    \/ LegacySchedule
    \/ CronTick

SpecLegacy == Init /\ [][NextLegacy]_vars

\* The link helpers, called on every link
NextHelpers ==
    \/ CallGetHashFromDownloadLink
    \/ CallGetGUIDFromRexTagURL
    \/ CallLegacyGetGUIDFromRexTagURL
    \/ HelperReturns

SpecHelpers == Init /\ [][NextHelpers]_vars

\* ValidateToken, one request after the other
NextValidate ==
    \/ HandleRequest
    \/ ExtractToken
    \/ DecodeHeader
    \/ VerifySignature
    \/ Authorize
    \/ RequestDone

SpecValidate == Init /\ [][NextValidate]_vars
\* The operations of the Service, one after the other, each calling the verbs of the
\* Client against every answer of the remote API
NextService ==
    \/ ServiceBegin(Contexts)
    \/ ServiceCall
    \/ MutexLock
    \/ ReadServiceToken
    \/ MutexUnlock
    \/ Do
    \/ Receive(ServiceAnswers)
    \/ ServiceResume
    \/ ServiceReturns

SpecService == Init /\ [][NextService]_vars

\* The Interceptor: the loads of NewInterceptor and of the watcher next to the AddToken
\* calls of the requests
NextInterceptor ==
    \/ LoadToken(SessionFiles)
    \/ LoadLock
    \/ StoreAccessToken
    \/ StoreTokenType
    \/ AddToken

SpecInterceptor == Init /\ [][NextInterceptor]_vars

\* ------------------------------------------------------------ the claims

Last(q) == q[Len(q)]
\* The primitive of the called verb has been entered and has sent a request
Sending == pc = "inflight" \/ (pc \in {"done", "panic"} /\ answers # <<>>)
\* An answer that is a response with status 408
IsTimeout(a) == a.hasResp /\ ~a.err /\ a.status = 408
\* An answer that is a response with a 2xx status whose body was read
IsSuccess(a) == a.hasResp /\ ~a.err /\ a.status >= 200 /\ a.status < 300 /\ ~a.readErr

\* C1: one invocation of post or patch sends exactly one request, whatever the answer
\* is (a 408 included): never a second one, and one once the primitive has sent.
C1_PostPatchSendOnce ==
    variant.verb \in {"POST", "PATCH"} =>
        /\ sent <= 1
        /\ Len(answers) <= 1
        /\ Sending => sent = 1
        /\ (answers # <<>> => pc \in {"done", "panic"})

C1_Witness ==
    /\ variant.verb = "POST"
    /\ pc = "done"
    /\ answers # <<>> /\ IsTimeout(answers[1])
    /\ sent = 1
    /\ outcome.status = 408

\* C2: a GET or DELETE answered 408 three times in a row has sent exactly 3 requests
\* and returns a failure; answered 2xx at attempt k <= 3 after k-1 answers of 408, it
\* has sent exactly k requests and returns that status without an error.
C2_RetryOnTimeout ==
    variant.verb \in {"GET", "DELETE"} =>
        /\ (Len(answers) >= 3 /\ \A i \in 1..3 : IsTimeout(answers[i])) =>
              /\ pc = "done"
              /\ sent = 3
              /\ Len(answers) = 3
              /\ outcome.err # NilErr
        /\ \A k \in 1..3 :
              (/\ Len(answers) >= k
               /\ \A i \in 1..(k - 1) : IsTimeout(answers[i])
               /\ IsSuccess(answers[k])) =>
                  /\ pc = "done"
                  /\ sent = k
                  /\ Len(answers) = k
                  /\ outcome.err = NilErr
                  /\ outcome.status = answers[k].status

C2_Witness ==
    /\ variant.verb = "DELETE"
    /\ pc = "done"
    /\ Len(answers) = 3
    /\ IsTimeout(answers[1]) /\ IsTimeout(answers[2]) /\ IsSuccess(answers[3])
    /\ sent = 3
    /\ outcome.status = 201

\* C3: a token whose header declares an algorithm other than HS256 and RS256 is
\* rejected with 403 and the next handler is never called, whatever its claims, its
\* signature and the configured keys are.
C3_UnexpectedAlgRejected ==
    (/\ vpc \notin {"idle", "NoToken"}
     /\ jwt.header.decodes = "ok"
     /\ jwt.header.algType = "string"
     /\ jwt.header.alg \notin {"HS256", "RS256"}) =>
        /\ vpc \in {"HeaderExtracted", "AlgRead", "Rejected"}
        /\ ~gin.next
        /\ (vpc = "Rejected" => gin.aborted /\ gin.status = 403)

C3_Witness ==
    /\ vpc = "Rejected"
    /\ jwt.header.alg = "HS384"
    /\ jwt.sig = Signed("HS384", "s3cret")
    /\ vin.signingKey = "s3cret"
    /\ ~jwt.claims.expired
    /\ gin.status = 403

C5_NeverPanics == vpc # "Panicked"

\* C6: no primitive panics when httpClient.Do returns an error and no response: the
\* call returns its (body, status, error).
C6_NoPanicWithoutResponse ==
    (answers # <<>> /\ Last(answers) = NoResponse) => pc = "done"

\* C7: a POST answered with status 409 returns no error, status 409 and the body of
\* the response.
C7_PostConflict ==
    (/\ variant.verb = "POST"
     /\ answers # <<>>
     /\ answers[1].hasResp /\ ~answers[1].err /\ answers[1].status = 409) =>
        /\ pc = "done"
        /\ outcome = [body |-> answers[1].body, status |-> 409, err |-> NilErr]

C7_Witness ==
    /\ variant.verb = "POST"
    /\ pc = "done"
    /\ answers # <<>> /\ answers[1].status = 409 /\ answers[1].body = "b2"
    /\ outcome.body = "b2"

\* C8: what a task reads of the service token under the lock is the value a finished
\* refresh left, never the fields of a refresh that is still storing them.
C8_NoTornRead ==
    /\ pc = "read" => serviceToken = committed
    /\ pc = "unlock" => observed = committed

\* A refresh is waiting for the lock while the reader holds the value of the one before
C8_Witness ==
    /\ pc = "unlock"
    /\ rpc = "r_lock"
    /\ observed.AccessToken = "t1" /\ observed.ExpiresIn = 3600
    /\ rbody = GrantShort

\* C9: the mutex is not held while a request is in flight: the refresh task holds it
\* only while json.Unmarshal stores the body it has read, and a with-service-user verb
\* only while it reads the token, before its request is sent.
C9_NoLockAcrossCall ==
    /\ mutex = "refresh" => rpc = "r_unmarshal"
    /\ mutex = "call" => (pc \in {"read", "unlock"} /\ sent = 0)
    /\ pc = "inflight" => mutex # "call"
    /\ rpc = "r_inflight" => mutex # "refresh"

\* A request of each task is in flight and the mutex is free
C9_Witness ==
    /\ pc = "inflight"
    /\ variant.service
    /\ rpc = "r_inflight"
    /\ mutex = "free"

\* C10: with a verified token and at least one name in compositeName, the request is
\* authorized exactly when a license item has the first name as its key; the names
\* after the first do not matter.
C10_FirstNameDecides ==
    (/\ vpc \in {"Authorized", "Rejected"}
     /\ claims.decodes
     /\ Len(vin.compositeName) >= 1) =>
        (vpc = "Authorized" <=>
            \E i \in DOMAIN jwt.claims.LicenseItems :
                jwt.claims.LicenseItems[i] = vin.compositeName[1])

\* Rejected although a license item has the second name
C10_Witness ==
    /\ vpc = "Rejected"
    /\ claims.decodes
    /\ vin.compositeName = <<"proj-y", "proj-x">>
    /\ jwt.claims.LicenseItems = <<"proj-x", "proj-x">>
    /\ gin.status = 403

\* A terminal position of ValidateToken
Ended == vpc \in {"Authorized", "Rejected", "Returned", "Panicked"}

\* The token tok carries a signature made for the algorithm its header declares, with
\* the key configured for that algorithm: the shared secret sk for HS256, the RSA public
\* key held in pk for RS256
SignedFor(tok, sk, pk) ==
    \/ tok.header.alg = "HS256" /\ tok.sig = [alg |-> "HS256", key |-> sk]
    \/ /\ tok.header.alg = "RS256"
       /\ pk.pem /\ pk.spki /\ pk.type = "rsa"
       /\ tok.sig = [alg |-> "RS256", key |-> pk.id]

\* The token tok is well formed, is not expired and carries such a signature
Verifies(tok, sk, pk) ==
    /\ tok.nparts = 3
    /\ tok.header.decodes = "ok" /\ tok.header.algType = "string"
    /\ tok.claims.decodes /\ ~tok.claims.expired
    /\ SignedFor(tok, sk, pk)

\* C11: when no entitlement name is given, a run on a token whose signature and
\* standard claims verify ends authorized, with the next handler called and no abort,
\* whatever license items the token carries
C11_NoNameAuthorizes ==
    (Ended /\ Len(vin.compositeName) = 0
        /\ Verifies(jwt, vin.signingKey, vin.signingPublicKey))
    => (vpc = "Authorized" /\ gin.next /\ ~gin.aborted)

\* Authorized without a name, on a token that carries no license item at all
C11_Witness ==
    /\ vpc = "Authorized"
    /\ vin.compositeName = <<>>
    /\ Verifies(jwt, vin.signingKey, vin.signingPublicKey)
    /\ jwt.claims.LicenseItems = <<>>
    /\ gin.next

\* C12: the user ID is in the context exactly when the validation succeeded: after an
\* authorized run it is the token's user_id, after every other run there is none
C12_UserIDOnlyOnSuccess ==
    Ended =>
        /\ (vpc = "Authorized" => gin.UserID = jwt.claims.UserID)
        /\ (vpc # "Authorized" => gin.UserID = Nil)

\* C13: the claims are read, and the user ID written to the context, only after the
\* signature verification succeeded: whenever either holds a value, the token is well
\* formed, unexpired and signed for the configured key, and the values are the token's
C13_ClaimsOnlyAfterVerification ==
    (claims # NoClaims \/ gin.UserID # Nil)
    => /\ vpc \in {"SignatureVerified", "Authorized", "Rejected"}
       /\ Verifies(jwt, vin.signingKey, vin.signingPublicKey)
       /\ claims = jwt.claims
       /\ gin.UserID \in {Nil, jwt.claims.UserID}

\* The claims of a verified RS256 token are read
C13_Witness ==
    /\ vpc = "SignatureVerified"
    /\ alg = "RS256"
    /\ claims = jwt.claims
    /\ claims.UserID = "u1"
    /\ gin.UserID = Nil

\* C14: a token is accepted only if its signature verifies under the key configured for
\* its declared algorithm, HS256 only with a configured (non-empty) shared secret and
\* RS256 only with the configured RSA public key
C14_NoAlgorithmConfusion ==
    vpc = "Authorized"
    => /\ SignedFor(jwt, vin.signingKey, vin.signingPublicKey)
       /\ (jwt.header.alg = "HS256" => vin.signingKey # "")

\* The value the validator takes the token from, as C15 states it
Presented == IF vin.header # Empty THEN vin.header ELSE vin.injected

\* C15: the token is taken from the authorization header and, only if that is empty,
\* from the injected value; if both are empty, or the first word is not "bearer" in any
\* case, the run is rejected with 403 and no token is looked at
C15_HeaderThenInjected ==
    vpc \notin {"idle", "NoToken"}
    => /\ (Presented = Empty \/ Presented.scheme \notin {"Bearer", "bearer", "BEARER"})
            => (vpc = "Rejected" /\ gin.aborted /\ gin.status = 403 /\ ~gin.next
                    /\ jwt = NoToken)
       /\ jwt # NoToken => (Presented.rest # <<>> /\ jwt = Presented.rest[1])

\* The header's token is the one validated although a different one was injected
C15_Witness ==
    /\ vpc = "Authorized"
    /\ vin.header # Empty /\ vin.injected # Empty
    /\ vin.injected.scheme = "Bearer" /\ vin.header.rest # vin.injected.rest
    /\ jwt = vin.header.rest[1]

\* The step of scheduleTokenRefreshHandler that computes the interval
Scheduling == rpc = "r_sched" /\ rpc' = "r_wait"

\* The floors the interval may be held at
Floors == {30, 60, 600}

\* C16: the interval computed from the cached token is expires_in - 30 when that
\* exceeds the floor and the floor otherwise, for every expires_in (0 and values below
\* 30 included): never negative, wrapped around or near zero
C16_IntervalNeverWraps ==
    [][Scheduling =>
        LET e == serviceToken.ExpiresIn IN
        \E floor \in Floors : interval' = IF e - 30 > floor THEN e - 30 ELSE floor]_vars

\* C17: the startup phase is left only when a service credential with a non-empty
\* access token is cached
C17_StartupEndsWithToken ==
    (rpc = "r_sched" \/ phase = "cron") => serviceToken.AccessToken # ""

\* The credential a body alone decodes to
RECURSIVE Decoded(_)
Decoded(members) ==
    IF members = <<>> THEN [AccessToken |-> "", TokenType |-> "", ExpiresIn |-> 0]
    ELSE LET m == members[Len(members)] IN
         [Decoded(SubSeq(members, 1, Len(members) - 1)) EXCEPT ![m.name] = m.value]

\* C18: at the end of a refresh that failed in decoding, every field of the cached
\* credential is as it was before the refresh; at the end of a successful one the
\* credential is that of the body as a whole
C18_FailedRefreshChangesNothing ==
    (rpc = "r_unmarshal" /\ pending = <<>>)
    => IF rerr THEN serviceToken = committed
       ELSE serviceToken = Decoded(rbody.members)

\* C19: between two refreshes of the cron phase, the interval in force is the one
\* computed from the token cached last
C19_ScheduledFromLatestToken ==
    (phase = "cron" /\ rpc = "r_wait") => interval = Interval(serviceToken.ExpiresIn)

C21_RefreshForever ==
    /\ <>(config.NotApplyServiceUser \/ committed.AccessToken # "")
    /\ []<>(config.NotApplyServiceUser \/ rpc = "r_inflight")

\* A grant request of the cron phase in flight while a credential is cached
C21_Witness ==
    /\ ~config.NotApplyServiceUser
    /\ phase = "cron" /\ rpc = "r_inflight"
    /\ committed.AccessToken # ""

\* The call returned 403 with an error and has sent nothing
Refused ==
    /\ pc = "done"
    /\ outcome.status = 403 /\ outcome.err.msg # "<nil>"
    /\ sent = 0 /\ answers = <<>>

\* C22: when no service identity is configured, a call of a with-service-user verb
\* returns 403 with an error and sends no request
C22_NoServiceUserForbidden ==
    (config.NotApplyServiceUser /\ variant.service) => Refused

\* DeleteWithServiceUser refused for want of a service user
C22_Witness ==
    /\ config.NotApplyServiceUser
    /\ variant.name = "DeleteWithServiceUser"
    /\ Refused

\* C23: a call of a with-caller verb returns 403 with an error and sends no request
\* whenever the context carries no access token: no data at all, or the empty string
C23_NoCallerTokenForbidden ==
    (variant.name # "" /\ ~variant.service /\ ctx.AccessToken = "") => Refused

\* C24: in get and delete, a response with a status outside 2xx other than 408 ends the
\* call at once, on whichever attempt it comes: the call returns an error with that
\* status and the body of the response
C24_OtherStatusEndsCall ==
    (variant.verb \in {"GET", "DELETE"} /\ answers # <<>>
        /\ Last(answers).hasResp /\ ~Last(answers).err
        /\ ~(Last(answers).status >= 200 /\ Last(answers).status < 300)
        /\ Last(answers).status # 408)
    => /\ pc = "done"
       /\ sent = Len(answers)
       /\ outcome.status = Last(answers).status
       /\ outcome.body = Last(answers).body
       /\ outcome.err.msg # "<nil>"

\* A DELETE ended by a 404 that came on the second attempt
C24_Witness ==
    /\ variant.verb = "DELETE"
    /\ Len(answers) = 2
    /\ answers[1].status = 408 /\ answers[2].status = 404 /\ ~answers[2].err
    /\ pc = "done" /\ sent = 2
    /\ outcome.status = 404

\* C26: a GET or DELETE that gets no response is tried again, up to MaxTrials attempts,
\* and then returns an error
C26_TransportFailureRetried ==
    (variant.verb \in {"GET", "DELETE"} /\ answers # <<>> /\ ~Last(answers).hasResp)
    => /\ pc \in {"send", "done"}
       /\ pc = "send" => sent < MaxTrials
       /\ pc = "done" => (sent = MaxTrials /\ outcome.err.msg # "<nil>")

\* C27: a POST that gets no response, or a status outside 2xx other than 409, returns
\* an error
C27_PostFailureSurfaced ==
    (variant.verb = "POST" /\ pc = "done" /\ answers # <<>>
        /\ (\/ ~Last(answers).hasResp
            \/ /\ ~(Last(answers).status >= 200 /\ Last(answers).status < 300)
               /\ Last(answers).status # 409))
    => outcome.err.msg # "<nil>"

\* C28: a GET or DELETE that has made k attempts has waited k-1 times when it returns
C28_WaitsBetweenAttempts ==
    (variant.verb \in {"GET", "DELETE"} /\ pc = "done" /\ sent >= 1)
    => waits = sent - 1

\* C25: once the deadline of the context the verb was called with has passed, no
\* further request is sent and the call, when it returns, returns an error
C25_DeadlineEndsCall ==
    [][ctx.elapsed =>
        /\ sent' <= sent
        /\ (pc # "done" /\ pc' = "done") => outcome'.err.msg # "<nil>"]_vars

\* The link has a scheme: words, then a colon
LinkHasScheme(link) ==
    \E j \in 2..Len(link) : link[j] = ":" /\ \A i \in 1..(j - 1) : link[i] \notin Marks

\* The path of a link that has a scheme: what follows the colon, up to the query or
\* the fragment, without the authority that follows "//"
LinkPath(link) ==
    LET r == After(link, First(link, {":"}))
        e == First(r, {"?", "#"})
        h == IF e = 0 THEN r ELSE Before(r, e) IN
    IF Len(h) >= 2 /\ h[1] = "/" /\ h[2] = "/"
    THEN LET t == SubSeq(h, 3, Len(h))
             k == First(t, {"/"}) IN
         IF k = 0 THEN <<>> ELSE SubSeq(t, k, Len(t))
    \* what does not start with "/" is opaque, no path
    ELSE IF h # <<>> /\ h[1] = "/" THEN h ELSE <<>>

\* C29: GetGUIDFromRexTagURL returns the last path segment of a link that has a scheme
\* and a non-empty path, and the empty string for every other link
C29_LastPathSegment ==
    util.fn \in {"GetGUIDFromRexTagURL", "LegacyGetGUIDFromRexTagURL"}
    => /\ ~util.result.exit
       /\ util.result.value =
            IF LinkHasScheme(util.link) /\ LinkPath(util.link) # <<>>
            THEN After(LinkPath(util.link), LastOf(LinkPath(util.link), {"/"}))
            ELSE <<>>

\* The places of the link where a contentHash parameter starts
HashParams(link) ==
    {i \in 2..(Len(link) - 1) :
        link[i] = "contentHash" /\ link[i + 1] = "=" /\ link[i - 1] \in {"?", "&"}}

\* The value of the parameter that starts at i: up to the next parameter, the
\* fragment or the end
ParamValue(link, i) ==
    LET v == SubSeq(link, i + 2, Len(link))
        e == First(v, {"&", "#"}) IN
    IF e = 0 THEN v ELSE Before(v, e)

\* C30: GetHashFromDownloadLink returns the value of the link's contentHash parameter,
\* and the empty string for a link without "="
C30_ContentHash ==
    util.fn = "GetHashFromDownloadLink"
    => /\ ~util.result.exit
       /\ \A i \in HashParams(util.link) :
            (\A j \in HashParams(util.link) : i <= j)
            => util.result.value = ParamValue(util.link, i)
       /\ (\A i \in 1..Len(util.link) : util.link[i] # "=") => util.result.value = <<>>

\* C31: an operation that ends in createHalResource returns the body of the response
\* only when the POST came back without error and with a status in [200,300); in every
\* other case, a 409 reported without error included, it returns an empty body and a
\* Status whose Code is the status the POST came back with, which is the status of the
\* response wherever the remote API answered.
C31_BodyOnlyOnSuccess ==
    (svc.op \in CreateNames /\ svc.step = "returned") =>
        LET c == svc.calls[1] IN
        IF c.out.err = NilErr /\ c.out.status >= 200 /\ c.out.status < 300
        THEN svc.result.body = c.out.body /\ svc.result.status.nil
        ELSE /\ svc.result.body = ""
             /\ ~svc.result.status.nil
             /\ svc.result.status.Code = c.out.status
             /\ (c.status # 0 => svc.result.status.Code = c.status)

\* A POST answered 409 has come back without error, and the operation has returned
C31_Witness ==
    /\ svc.op \in CreateNames /\ svc.step = "returned"
    /\ svc.calls[1].status = 409 /\ svc.calls[1].out.err = NilErr
    /\ svc.result.body = "" /\ svc.result.status.Code = 409

\* the call of the Client has failed: an error, or a status outside [200,300)
Failed(c) == c.out.err # NilErr \/ c.out.status < 200 \/ c.out.status >= 300
StepsOf(calls) == [i \in 1..Len(calls) |-> calls[i].step]
IsPrefix(p, q) == Len(p) <= Len(q) /\ \A i \in 1..Len(p) : p[i] = q[i]

\* C32: CreateOrUpdateUserShare calls the Client in the order user lookup (GET), POST of
\* the user share, PATCH of the user share, and it goes on to the PATCH if and only if
\* the POST ended with status 409: after any other failure of the POST it returns that
\* failure, and after a successful POST it returns success, in both cases without PATCH.
C32_PatchOnlyAfterConflict ==
    svc.op = "CreateOrUpdateUserShare" =>
        /\ IsPrefix(StepsOf(svc.calls), <<"lookup", "post", "patch">>)
        /\ Len(svc.calls) >= 2 =>
              LET created == svc.calls[2] IN
              IF created.out.status = 409
              THEN svc.step = "patch" \/ Len(svc.calls) = 3
              ELSE /\ svc.step = "returned" /\ Len(svc.calls) = 2
                   /\ IF Failed(created)
                      THEN ~svc.result.status.nil /\ svc.result.status.Code = created.out.status
                      ELSE svc.result.status.nil

\* The three requests have been sent in a row, the POST answered 409
C32_Witness ==
    /\ svc.op = "CreateOrUpdateUserShare" /\ svc.step = "returned"
    /\ StepsOf(svc.calls) = <<"lookup", "post", "patch">>
    /\ \A i \in 1..3 : svc.calls[i].sent >= 1
    /\ svc.calls[2].status = 409

\* C33: TransferProject, after the lookup of the project, looks the new owner up by
\* e-mail and only then by username; it makes the lookup by username exactly when the
\* lookup by e-mail failed with status 404, and after any other failure of the lookup
\* by e-mail it returns that failure and has sent no PATCH.
C33_UsernameOnlyAfterNotFound ==
    svc.op = "TransferProject" =>
        /\ \/ IsPrefix(StepsOf(svc.calls), <<"project", "email", "username", "patch">>)
           \/ IsPrefix(StepsOf(svc.calls), <<"project", "email", "patch">>)
        /\ Len(svc.calls) >= 2 =>
              LET email == svc.calls[2]
                  byUsername == \/ svc.step = "username"
                                \/ Len(svc.calls) >= 3 /\ svc.calls[3].step = "username" IN
              /\ byUsername <=> (Failed(email) /\ email.out.status = 404)
              /\ (Failed(email) /\ email.out.status # 404) =>
                    /\ svc.step = "returned" /\ Len(svc.calls) = 2
                    /\ ~svc.result.status.nil
                    /\ svc.result.status.Code = email.out.status

\* The owner was not found by e-mail (404), was found by username, and the project
\* has been patched
C33_Witness ==
    /\ svc.op = "TransferProject" /\ svc.step = "returned"
    /\ StepsOf(svc.calls) = <<"project", "email", "username", "patch">>
    /\ svc.calls[2].status = 404 /\ svc.calls[3].status = 200
    /\ svc.calls[4].sent = 1 /\ svc.result.status.nil

\* C34: an upload operation whose POST came back without an executor error but with a
\* status other than 200 returns a failure Status and does not crash.
C34_UploadFailureReturned ==
    (/\ svc.op \in UploadNames /\ svc.calls # <<>>
     /\ svc.calls[Len(svc.calls)].step = "post"
     /\ svc.calls[Len(svc.calls)].out.err = NilErr
     /\ svc.calls[Len(svc.calls)].out.status # 200) =>
        svc.step = "returned" /\ ~svc.result.status.nil

\* C35: no request of a with-service-user call is on its way with the Authorization
\* value "Bearer " followed by nothing.
C35_NoEmptyBearer ==
    (pc = "inflight" /\ variant.service) => req.Authorization # "Bearer "

\* C36: no step of a load of the session file that failed (the file could not be
\* opened, read or parsed) changes the access token or the token type of the
\* Interceptor.
C36_FailedReloadKeepsToken ==
    [][(\/ loader.pc \in {"new", "watching"} /\ loader'.pc = "watching"
        \/ loader.pc \in {"lock", "accessToken", "tokenType"} /\ loader.session.err)
       => /\ interceptor'.accessToken = interceptor.accessToken
          /\ interceptor'.tokenType = interceptor.tokenType]_vars

\* C37: what AddToken has set is the token type and the access token of one load (or
\* the two empty strings the Interceptor starts with), never the type of one load with
\* the access token of another.
C37_TokenOfOneLoad ==
    authorization # Nil =>
        \E l \in loads \cup {<<"", "">>} : authorization = l[1] \o " " \o l[2]

\* AddToken has set the token of a second load, while a third load that brings another
\* type and another access token is waiting for the mutex or storing its fields
C37_Witness ==
    /\ authorization = "mac a2"
    /\ <<"bearer", "a1">> \in loads
    /\ interceptor.accessToken = "a2"
    /\ loader.pc \in {"lock", "accessToken", "tokenType"}
    /\ loader.session.TokenType = "bearer" /\ loader.session.AccessToken = "a1"

====
